---------------------------- MODULE Spec2Model ----------------------------
(***************************************************************************)
(* A model of the bencode codec (package bencode): Marshal and Unmarshal, *)
(* the per-shape field metadata, and the recursive-descent decoder over a *)
(* byte cursor.                                                            *)
(*                                                                         *)
(* Bytes are their ASCII codes, a Go string or []byte is a sequence of     *)
(* bytes, and a reflect.Type is a record with a kind field:                *)
(*   bool, string, bigint (math/big.Int), float (a kind with no encoder),  *)
(*   int/uint with bits, slice/array/ptr with elem (array with len),       *)
(*   map (string keys) with elem, struct with fields.                      *)
(* A reflect.Value is represented per kind:                                *)
(*   bool: BOOLEAN; int, uint, bigint, float: an integer; string: bytes;   *)
(*   slice: [nil, items]; array: a sequence of length len;                 *)
(*   map: [nil, m] with m a function from keys to values;                  *)
(*   ptr: <<>> (nil) or <<v>>; struct: the sequence of its field values.   *)
(* Interface targets and the Marshaler/Unmarshaler hooks are outside the   *)
(* shapes enumerated here.                                                 *)
(***************************************************************************)
EXTENDS Integers, Sequences, FiniteSets, TLC

\* ------------------------------------------------------------------ bounds
\* Longest list, slice or string that is enumerated as an input.
MaxLen == 2
\* Integers enumerated as inputs are 0..MaxInt, and -1 for signed kinds.
MaxInt == 2

\* ------------------------------------------------------------- wire bytes
B_d == 100
B_e == 101
B_i == 105
B_l == 108
B_colon == 58
B_0 == 48
B_9 == 57

\* The bytes "-" and "+" that strconv and math/big accept as a sign.
Minus == << 45 >>
IsSign(b) == b = 45 \/ b = 43

IsDigit(b) == b >= B_0 /\ b <= B_9

Min(a, b) == IF a < b THEN a ELSE b

RECURSIVE Pow2(_)
Pow2(n) == IF n = 0 THEN 1 ELSE 2 * Pow2(n - 1)

\* ----------------------------------------------------- strconv, math/big
\* strconv.AppendUint(nil, n, 10): the decimal digits of n >= 0.
RECURSIVE AppendUint(_)
AppendUint(n) ==
    IF n < 10 THEN << B_0 + n >>
    ELSE Append(AppendUint(n \div 10), B_0 + (n % 10))

\* strconv.AppendInt(nil, n, 10); big.Int.String() prints the same digits.
AppendInt(n) == IF n < 0 THEN Minus \o AppendUint(-n) ELSE AppendUint(n)

AllDigits(s) == \A k \in 1..Len(s) : IsDigit(s[k])

RECURSIVE DigitsValue(_)
DigitsValue(s) ==
    IF s = << >> THEN 0
    ELSE 10 * DigitsValue(SubSeq(s, 1, Len(s) - 1)) + (s[Len(s)] - B_0)

\* strconv.ParseUint(s, 10, 64): digits only, at least one.  The 64-bit range
\* is not reached by the payloads enumerated here (TLC integers are 32-bit).
ParseUint(s) ==
    IF s # << >> /\ AllDigits(s)
    THEN [err |-> FALSE, n |-> DigitsValue(s)]
    ELSE [err |-> TRUE, n |-> 0]

\* strconv.ParseInt(s, 10, 64) and big.Int.SetString(s, 10): an optional
\* sign, then digits only, at least one.
ParseInt(s) ==
    IF s # << >> /\ IsSign(s[1])
    THEN LET u == ParseUint(Tail(s))
         IN  [err |-> u.err, n |-> IF s[1] = 45 THEN 0 - u.n ELSE u.n]
    ELSE ParseUint(s)

\* reflect.Value.OverflowInt / OverflowUint for a kind of the given width.
OverflowInt(bits, n) == n < 0 - Pow2(bits - 1) \/ n > Pow2(bits - 1) - 1
OverflowUint(bits, n) == n > Pow2(bits) - 1

\* Go's < on strings: bytewise lexicographic order.
RECURSIVE StrLess(_, _)
StrLess(a, b) ==
    IF b = << >> THEN FALSE
    ELSE IF a = << >> THEN TRUE
    ELSE IF a[1] # b[1] THEN a[1] < b[1]
    ELSE StrLess(Tail(a), Tail(b))

\* ------------------------------------------------------------------ types
TBool == [kind |-> "bool"]
TString == [kind |-> "string"]
TBigInt == [kind |-> "bigint"]
TFloat == [kind |-> "float"]
TInt(bits) == [kind |-> "int", bits |-> bits]
TUint(bits) == [kind |-> "uint", bits |-> bits]
TSlice(elem) == [kind |-> "slice", elem |-> elem]
TArray(n, elem) == [kind |-> "array", len |-> n, elem |-> elem]
TMap(elem) == [kind |-> "map", elem |-> elem]
TPtr(elem) == [kind |-> "ptr", elem |-> elem]
TStruct(fields) == [kind |-> "struct", fields |-> fields]

\* reflect.StructField: Name, the bencode tag split at "," (tag[1] is the
\* key token, the rest are option tokens), PkgPath = "" (exported),
\* Anonymous, and Type.
Field(name, tag, exported, typ) ==
    [name |-> name, tag |-> tag, exported |-> exported,
     anonymous |-> FALSE, typ |-> typ]

\* parseTag of an absent tag: strings.Split("", ",") is one empty token.
NoTag == << << >> >>

\* reflect.Zero(t).
RECURSIVE Zero(_)
Zero(t) ==
    CASE t.kind = "bool" -> FALSE
      [] t.kind \in {"int", "uint", "bigint", "float"} -> 0
      [] t.kind = "string" -> << >>
      [] t.kind = "slice" -> [nil |-> TRUE, items |-> << >>]
      [] t.kind = "array" -> [k \in 1..t.len |-> Zero(t.elem)]
      [] t.kind = "map" -> [nil |-> TRUE, m |-> << >>]
      [] t.kind = "ptr" -> << >>
      [] t.kind = "struct" -> [k \in 1..Len(t.fields) |-> Zero(t.fields[k].typ)]

\* -------------------------------------------------------- field metadata
\* tag.Key(), tag.Ignore(), tag.HasOpt(opt), tag.OmitEmpty().
Key(tag) == tag[1]
Ignore(tag) == tag[1] = Minus
HasOpt(tag, opt) == \E k \in 2..Len(tag) : tag[k] = opt
OmitEmpty(tag) == HasOpt(tag, "omitempty")

\* sort.Sort on a list of at most 12 entries ordered by tag: insertion sort,
\* which swaps entry j with entry j-1 while Less(j, j-1).
RECURSIVE insertionSortInner(_, _)
insertionSortInner(s, j) ==
    IF j > 1 /\ StrLess(s[j].tag, s[j - 1].tag)
    THEN insertionSortInner([s EXCEPT ![j] = s[j - 1], ![j - 1] = s[j]], j - 1)
    ELSE s

RECURSIVE insertionSortFrom(_, _)
insertionSortFrom(s, i) ==
    IF i > Len(s) THEN s
    ELSE insertionSortFrom(insertionSortInner(s, i), i + 1)

sortSort(s) == insertionSortFrom(s, 2)

\* encodeFields: the exported, named, non-ignored fields, each with its
\* wire key and omission policy, sorted by wire key.
RECURSIVE encodeFieldsLoop(_, _, _)
encodeFieldsLoop(t, i, current) ==
    IF i > Len(t.fields) THEN current
    ELSE LET f == t.fields[i]
             ef == [i |-> i,
                    tag |-> IF Key(f.tag) # << >> THEN Key(f.tag) ELSE f.name,
                    omitEmpty |-> OmitEmpty(f.tag)]
         IN  IF ~f.exported \/ f.anonymous \/ Ignore(f.tag)
             THEN encodeFieldsLoop(t, i + 1, current)
             ELSE encodeFieldsLoop(t, i + 1, Append(current, ef))

encodeFields(t) == sortSort(encodeFieldsLoop(t, 1, << >>))

\* cachedTypeFields: the cache stores the value of the pure encodeFields.
cachedTypeFields(t) == encodeFields(t)

\* decodeFields: a map from wire key to field index; a later field with the
\* same key overwrites the entry (m[key] = ...).  The tag string equals "-"
\* exactly when its split has the one token "-".
RECURSIVE decodeFieldsLoop(_, _, _)
decodeFieldsLoop(t, i, m) ==
    IF i > Len(t.fields) THEN m
    ELSE LET f == t.fields[i]
             key == IF Key(f.tag) = << >> THEN f.name ELSE Key(f.tag)
         IN  IF f.anonymous \/ f.tag = << Minus >>
             THEN decodeFieldsLoop(t, i + 1, m)
             ELSE decodeFieldsLoop(t, i + 1, (key :> i) @@ m)

\* decodeFields with the "-" fields kept in the map.
RECURSIVE decodeFieldsLoop_KeepIgnored(_, _, _)
decodeFieldsLoop_KeepIgnored(t, i, m) ==
    IF i > Len(t.fields) THEN m
    ELSE LET f == t.fields[i]
             key == IF Key(f.tag) = << >> \/ Key(f.tag) = Minus THEN f.name
                    ELSE Key(f.tag)
         IN  IF f.anonymous
             THEN decodeFieldsLoop_KeepIgnored(t, i + 1, m)
             ELSE decodeFieldsLoop_KeepIgnored(t, i + 1, (key :> i) @@ m)

decodeFields_KeepIgnored(t) == decodeFieldsLoop_KeepIgnored(t, 1, << >>)

\* decodeFields that keeps the entry a key already has.
RECURSIVE decodeFieldsLoop_FirstWins(_, _, _)
decodeFieldsLoop_FirstWins(t, i, m) ==
    IF i > Len(t.fields) THEN m
    ELSE LET f == t.fields[i]
             key == IF Key(f.tag) = << >> THEN f.name ELSE Key(f.tag)
         IN  IF f.anonymous \/ f.tag = << Minus >>
             THEN decodeFieldsLoop_FirstWins(t, i + 1, m)
             ELSE decodeFieldsLoop_FirstWins(t, i + 1, m @@ (key :> i))

decodeFields_FirstWins(t) == decodeFieldsLoop_FirstWins(t, 1, << >>)

decodeFields(t) == decodeFieldsLoop(t, 1, << >>)

\* getStructFieldForKey: [ok, i] for the key's entry of decodeFields.
getStructFieldForKey(t, key) ==
    LET m == decodeFields(t)
    IN  IF key \in DOMAIN m THEN [ok |-> TRUE, i |-> m[key]]
        ELSE [ok |-> FALSE, i |-> 0]

\* ------------------------------------------------------------ isEmptyValue
\* "true", "false", or "panic": reflect.Value.Interface panics on a value
\* obtained through an unexported field (ro).  z = z && isEmptyValue(...)
\* does not evaluate the call once z is false.
RECURSIVE isEmptyValue(_, _, _)
RECURSIVE isEmptyArray(_, _, _, _)
RECURSIVE isEmptyStruct(_, _, _, _)

isEmptyArray(t, v, i, ro) ==
    IF i > Len(v) THEN "true"
    ELSE LET z == isEmptyValue(t.elem, v[i], ro)
         IN  IF z = "true" THEN isEmptyArray(t, v, i + 1, ro)
             ELSE z

isEmptyStruct(t, v, i, ro) ==
    IF i > Len(t.fields) THEN "true"
    ELSE LET z == isEmptyValue(t.fields[i].typ, v[i],
                               ro \/ ~t.fields[i].exported)
         IN  IF z = "true" THEN isEmptyStruct(t, v, i + 1, ro)
             ELSE z

isEmptyValue(t, v, ro) ==
    CASE t.kind \in {"map", "slice"} -> IF v.nil THEN "true" ELSE "false"
      [] t.kind = "array" -> isEmptyArray(t, v, 1, ro)
      [] t.kind = "struct" -> isEmptyStruct(t, v, 1, ro)
      \* big.Int is a struct whose first field, neg, is an unexported bool.
      [] t.kind = "bigint" -> "panic"
      [] OTHER -> IF ro THEN "panic"
                  ELSE IF v = Zero(t) THEN "true" ELSE "false"

\* ----------------------------------------------------------------- encoder
\* reflect.Value.MapKeys: the keys in an order the runtime picks (iter).
RECURSIVE MapKeys(_, _)
MapKeys(keys, iter) ==
    IF keys = {} THEN << >>
    ELSE LET k == CHOOSE k \in keys : \A o \in keys \ {k} :
                      IF iter = "asc" THEN StrLess(k, o) ELSE StrLess(o, k)
         IN  << k >> \o MapKeys(keys \ {k}, iter)

\* newTypeEncoder: the encoder chosen for a type.
newTypeEncoder(t) ==
    CASE t.kind = "bigint" -> "bigIntEncoder"
      [] t.kind = "bool" -> "boolEncoder"
      [] t.kind = "int" -> "intEncoder"
      [] t.kind = "uint" -> "uintEncoder"
      [] t.kind = "string" -> "stringEncoder"
      [] t.kind = "struct" -> "newStructEncoder"
      [] t.kind = "map" -> "newMapEncoder"
      [] t.kind = "slice" -> "newSliceEncoder"
      [] t.kind = "array" -> "newArrayEncoder"
      [] t.kind = "ptr" -> "newPtrEncoder"
      [] OTHER -> "unsupportedTypeEncoder"

\* typeEncoder: a sequential caller gets the encoder newTypeEncoder computes.
typeEncoder(t) == newTypeEncoder(t)

\* An encoder's result: err is "" (nil), "unsupported", or "panic" (the
\* panic of isEmptyValue, which Marshal does not recover); out is what was
\* written to the buffer.
Enc(err, out) == [err |-> err, out |-> out]

bigIntEncoder(v) == Enc("", << B_i >> \o AppendInt(v) \o << B_e >>)
boolEncoder(v) ==
    Enc("", IF v THEN << B_i, B_0 + 1, B_e >> ELSE << B_i, B_0, B_e >>)
intEncoder(v) == Enc("", << B_i >> \o AppendInt(v) \o << B_e >>)
uintEncoder(v) == Enc("", << B_i >> \o AppendUint(v) \o << B_e >>)
stringEncoder(v) == Enc("", AppendInt(Len(v)) \o << B_colon >> \o v)

RECURSIVE reflectValue(_, _, _)
RECURSIVE structEncoderLoop(_, _, _, _, _)
RECURSIVE mapEncoderLoop(_, _, _, _, _)
RECURSIVE arrayEncoderLoop(_, _, _, _, _)

\* The loop of newStructEncoder over cachedTypeFields, from entry k on, with
\* out the bytes written so far.
structEncoderLoop(t, v, iter, k, out) ==
    LET efs == cachedTypeFields(t)
    IN  IF k > Len(efs) THEN Enc("", Append(out, B_e))
        ELSE LET ef == efs[k]
                 ft == t.fields[ef.i].typ
                 empty == IF ef.omitEmpty THEN isEmptyValue(ft, v[ef.i], FALSE)
                          ELSE "false"
                 head == out \o AppendInt(Len(ef.tag)) \o << B_colon >> \o ef.tag
                 r == reflectValue(ft, v[ef.i], iter)
             IN  IF empty = "panic" THEN Enc("panic", out)
                 ELSE IF empty = "true"
                 THEN structEncoderLoop(t, v, iter, k + 1, out)
                 ELSE IF r.err # "" THEN Enc(r.err, head \o r.out)
                 ELSE structEncoderLoop(t, v, iter, k + 1, head \o r.out)

newStructEncoder(t, v, iter) == structEncoderLoop(t, v, iter, 1, << B_d >>)

\* The loop of newMapEncoder over the sorted keys sv.
mapEncoderLoop(t, v, iter, sv, out) ==
    IF sv = << >> THEN Enc("", Append(out, B_e))
    ELSE LET key == sv[1].tag
             head == out \o stringEncoder(key).out
             r == reflectValue(t.elem, v.m[key], iter)
         IN  IF r.err # "" THEN Enc(r.err, head \o r.out)
             ELSE mapEncoderLoop(t, v, iter, Tail(sv), head \o r.out)

newMapEncoder(t, v, iter) ==
    IF v.nil THEN Enc("", << B_d, B_e >>)
    ELSE LET keys == MapKeys(DOMAIN v.m, iter)
             sv == sortSort([k \in 1..Len(keys) |-> [tag |-> keys[k]]])
         IN  mapEncoderLoop(t, v, iter, sv, << B_d >>)

\* The loop of newArrayEncoder over the elements, from index k on.
arrayEncoderLoop(t, items, iter, k, out) ==
    IF k > Len(items) THEN Enc("", Append(out, B_e))
    ELSE LET r == reflectValue(t.elem, items[k], iter)
         IN  IF r.err # "" THEN Enc(r.err, out \o r.out)
             ELSE arrayEncoderLoop(t, items, iter, k + 1, out \o r.out)

newArrayEncoder(t, items, iter) == arrayEncoderLoop(t, items, iter, 1, << B_l >>)

newSliceEncoder(t, v, iter) ==
    IF t.elem.kind = "uint" /\ t.elem.bits = 8
    THEN Enc("", AppendInt(Len(v.items)) \o << B_colon >> \o v.items)
    ELSE IF v.nil THEN Enc("", << B_l, B_e >>)
    ELSE newArrayEncoder(t, v.items, iter)

newPtrEncoder(t, v, iter) ==
    IF v = << >> THEN reflectValue(t.elem, Zero(t.elem), iter)
    ELSE reflectValue(t.elem, v[1], iter)

unsupportedTypeEncoder(v) == Enc("unsupported", << >>)

\* encodeState.reflectValue: typeEncoder(v.Type())(e, v).
reflectValue(t, v, iter) ==
    LET f == typeEncoder(t)
    IN  CASE f = "bigIntEncoder" -> bigIntEncoder(v)
          [] f = "boolEncoder" -> boolEncoder(v)
          [] f = "intEncoder" -> intEncoder(v)
          [] f = "uintEncoder" -> uintEncoder(v)
          [] f = "stringEncoder" -> stringEncoder(v)
          [] f = "newStructEncoder" -> newStructEncoder(t, v, iter)
          [] f = "newMapEncoder" -> newMapEncoder(t, v, iter)
          [] f = "newSliceEncoder" -> newSliceEncoder(t, v, iter)
          [] f = "newArrayEncoder" -> newArrayEncoder(t, v, iter)
          [] f = "newPtrEncoder" -> newPtrEncoder(t, v, iter)
          [] OTHER -> unsupportedTypeEncoder(v)

\* Marshal: the bytes are returned only when marshal returns no error.
Marshal(t, v, iter) ==
    LET r == reflectValue(t, v, iter)
    IN  IF r.err # "" THEN Enc(r.err, << >>) ELSE r

\* ----------------------------------------------------------------- decoder
\* decodeState: Offset counts the bytes read from the Scanner over data, so
\* the Scanner's next byte is data[Offset + 1]; buf is the embedded Buffer.
newDecodeState == [Offset |-> 0, buf |-> << >>]

\* An error is "" (nil) or names the place that raised it:
\*   "syntax"       readByte at the end of the data (panic, newSyntaxError)
\*   "strconv"      readStringLength's ParseInt failed (panic)
\*   "eof"          readLength's io.ReadFull came short (panic)
\*   "unknownValue" parseValue's newUnknownValueType
\*   "type"         "cannot unmarshal a bencode ... into a ..."
\*   "unknownType"  parseInteger's newUnknownType
\*   "unknownKey"   parseDict's newError("") for a key without a usable field
\*   "missingValue" parseDict's "missing value for key"
\*   "bigint"       bigIntDecoder's newError("")
\*   "unexpectedE"  unmarshal's "unexpected 'e'"
\* A panic is recovered by unmarshal and returned, so both travel the same.

\* readByte: [err, b, d].
readByte(data, d) ==
    IF d.Offset >= Len(data) THEN [err |-> "syntax", b |-> 0, d |-> d]
    ELSE [err |-> "", b |-> data[d.Offset + 1],
          d |-> [d EXCEPT !.Offset = @ + 1]]

\* readUntil: bytes up to sep are written to buf; sep is consumed. [err, d].
RECURSIVE readUntil(_, _, _)
readUntil(data, d, sep) ==
    LET step(r) ==
            IF r.err # "" THEN [err |-> r.err, d |-> r.d]
            ELSE IF r.b = sep THEN [err |-> "", d |-> r.d]
            ELSE readUntil(data, [r.d EXCEPT !.buf = Append(@, r.b)], sep)
    IN  step(readByte(data, d))

\* readInt: [err, s, d]; buf is reset once its bytes are returned.
readInt(data, d) ==
    LET step(r) ==
            IF r.err # "" THEN [err |-> r.err, s |-> << >>, d |-> r.d]
            ELSE IF Len(r.d.buf) = 0 THEN [err |-> "", s |-> << >>, d |-> r.d]
            ELSE [err |-> "", s |-> r.d.buf, d |-> [r.d EXCEPT !.buf = << >>]]
    IN  step(readUntil(data, d, B_e))

\* readStringLength: [err, length, d].
readStringLength(data, d) ==
    LET step(r, n) ==
            IF r.err # "" THEN [err |-> r.err, length |-> 0, d |-> r.d]
            ELSE IF n.err
            THEN [err |-> "strconv", length |-> 0,
                  d |-> [r.d EXCEPT !.buf = << >>]]
            ELSE [err |-> "", length |-> n.n, d |-> [r.d EXCEPT !.buf = << >>]]
        parse(r) == step(r, ParseInt(r.d.buf))
    IN  parse(readUntil(data, d, B_colon))

\* readLength: [err, b, d]; Offset advances by the bytes that were there.
readLength(data, d, length) ==
    LET step(n) ==
            IF n < length
            THEN [err |-> "eof", b |-> << >>, d |-> [d EXCEPT !.Offset = @ + n]]
            ELSE [err |-> "", b |-> SubSeq(data, d.Offset + 1, d.Offset + n),
                  d |-> [d EXCEPT !.Offset = @ + n]]
    IN  step(Min(length, Len(data) - d.Offset))

\* What a parse function leaves: ok (parseValue's bool), err, the target's
\* value (populated as far as the parse got), and the decodeState.
Res(ok, err, v, d) == [ok |-> ok, err |-> err, v |-> v, d |-> d]

IsByte(t) == t.kind = "uint" /\ t.bits = 8

\* reflect.Copy(v, b) into an array: the first min(len) elements.
reflectCopy(v, b) ==
    [k \in 1..Len(v) |-> IF k <= Len(b) THEN b[k] ELSE v[k]]

parseByteString(data, d, t, v) ==
    LET assign(r) ==
            IF r.err # "" THEN Res(TRUE, r.err, v, r.d)
            ELSE CASE t.kind = "string" -> Res(TRUE, "", r.b, r.d)
                   [] t.kind = "slice" /\ IsByte(t.elem) ->
                        Res(TRUE, "", [nil |-> FALSE, items |-> r.b], r.d)
                   [] t.kind = "array" /\ IsByte(t.elem) ->
                        Res(TRUE, "", reflectCopy(v, r.b), r.d)
                   [] OTHER -> Res(TRUE, "type", v, r.d)
        read(l) ==
            IF l.err # "" THEN Res(TRUE, l.err, v, l.d)
            ELSE assign(readLength(data, l.d, l.length))
    IN  read(readStringLength(data, d))

bigIntDecoder(data, d, t, v) ==
    LET step(r, n) ==
            IF r.err # "" THEN Res(TRUE, r.err, v, r.d)
            ELSE IF r.s = << >> THEN Res(TRUE, "bigint", v, r.d)
            ELSE IF n.err THEN Res(TRUE, "bigint", v, r.d)
            ELSE Res(TRUE, "", n.n, r.d)
        parse(r) == step(r, ParseInt(r.s))
    IN  parse(readInt(data, d))

parseInteger(data, d, t, v) ==
    LET step(r, n, u) ==
            IF r.err # "" THEN Res(TRUE, r.err, v, r.d)
            ELSE IF t.kind = "bigint" THEN bigIntDecoder(data, r.d, t, v)
            ELSE CASE t.kind = "int" ->
                        IF n.err \/ OverflowInt(t.bits, n.n)
                        THEN Res(TRUE, "type", v, r.d)
                        ELSE Res(TRUE, "", n.n, r.d)
                   [] t.kind = "uint" ->
                        IF u.err \/ OverflowUint(t.bits, u.n)
                        THEN Res(TRUE, "type", v, r.d)
                        ELSE Res(TRUE, "", u.n, r.d)
                   [] t.kind = "bool" -> Res(TRUE, "", r.s # << B_0 >>, r.d)
                   [] OTHER -> Res(TRUE, "unknownType", v, r.d)
        parse(r) == step(r, ParseInt(r.s), ParseUint(r.s))
    IN  parse(readInt(data, d))

RECURSIVE parseValue(_, _, _, _)
RECURSIVE parseList(_, _, _, _)
RECURSIVE parseListSlice(_, _, _, _)
RECURSIVE parseListArray(_, _, _, _, _)
RECURSIVE parseDict(_, _, _, _)

\* parseList, case reflect.Slice: the loop from index Len(items) on.  Each
\* round appends a zero element and parses into it; the loop breaks when
\* parseValue returns true.
parseListSlice(data, d, t, items) ==
    LET step(r, v) ==
            IF r.err # "" THEN Res(TRUE, r.err, v, r.d)
            ELSE IF r.ok THEN Res(TRUE, "", v, r.d)
            ELSE parseListSlice(data, r.d, t, v.items)
        append(r) == step(r, [nil |-> FALSE, items |-> Append(items, r.v)])
    IN  append(parseValue(data, d, t.elem, Zero(t.elem)))

\* parseList, case reflect.Array: the loop from index i on.  A slot whose
\* parseValue returns false is set to zero, and the loop goes on.
parseListArray(data, d, t, v, i) ==
    LET step(r) ==
            IF r.err # "" THEN Res(TRUE, r.err, [v EXCEPT ![i] = r.v], r.d)
            ELSE IF ~r.ok
            THEN parseListArray(data, r.d, t,
                                [v EXCEPT ![i] = Zero(t.elem)], i + 1)
            ELSE parseListArray(data, r.d, t, [v EXCEPT ![i] = r.v], i + 1)
    IN  IF i > Len(v) THEN Res(TRUE, "", v, d)
        ELSE step(parseValue(data, d, t.elem, v[i]))

parseList(data, d, t, v) ==
    CASE t.kind = "slice" -> parseListSlice(data, d, t, << >>)
      [] t.kind = "array" -> parseListArray(data, d, t, v, 1)
      [] OTHER -> Res(TRUE, "", v, d)

\* parseDict: one round of the loop per key.
parseDict(data, d, t, v) ==
    LET mapValue(key, r) ==
            IF r.err # "" THEN Res(TRUE, r.err, v, r.d)
            ELSE IF ~r.ok THEN Res(TRUE, "missingValue", v, r.d)
            ELSE parseDict(data, r.d, t,
                           [nil |-> FALSE, m |-> (key :> r.v) @@ v.m])
        fieldValue(sf, r) ==
            IF r.err # "" THEN Res(TRUE, r.err, [v EXCEPT ![sf.i] = r.v], r.d)
            ELSE IF ~r.ok
            THEN Res(TRUE, "missingValue", [v EXCEPT ![sf.i] = r.v], r.d)
            ELSE parseDict(data, r.d, t, [v EXCEPT ![sf.i] = r.v])
        field(k, sf) ==
            IF ~sf.ok \/ ~t.fields[sf.i].exported
            THEN Res(TRUE, "unknownKey", v, k.d)
            ELSE fieldValue(sf, parseValue(data, k.d, t.fields[sf.i].typ,
                                           v[sf.i]))
        pair(k) ==
            IF k.err # "" THEN Res(TRUE, k.err, v, k.d)
            ELSE IF ~k.ok THEN Res(TRUE, "", v, k.d)
            ELSE CASE t.kind = "map" ->
                        mapValue(k.v, parseValue(data, k.d, t.elem,
                                                 Zero(t.elem)))
                   [] t.kind = "struct" ->
                        field(k, getStructFieldForKey(t, k.v))
                   [] OTHER -> parseDict(data, k.d, t, v)
    IN  pair(parseValue(data, d, TString, << >>))

\* parseValue after the pointer step: dispatch on the next byte.
parseValueByte(data, d, t, v) ==
    LET switch(r) ==
            IF r.err # "" THEN Res(FALSE, r.err, v, r.d)
            ELSE CASE r.b = B_e -> Res(FALSE, "", v, r.d)
                   [] r.b = B_d -> parseDict(data, r.d, t, v)
                   [] r.b = B_l -> parseList(data, r.d, t, v)
                   [] r.b = B_i -> parseInteger(data, r.d, t, v)
                   [] IsDigit(r.b) ->
                        parseByteString(data, [r.d EXCEPT !.buf = << r.b >>],
                                        t, v)
                   [] OTHER -> Res(FALSE, "unknownValue", v, r.d)
    IN  switch(readByte(data, d))

\* parseValue: a pointer target is allocated when nil and followed once.
parseValue(data, d, t, v) ==
    LET deref(r) == Res(r.ok, r.err, << r.v >>, r.d)
    IN  IF t.kind = "ptr"
        THEN deref(parseValueByte(data, d, t.elem,
                                  IF v = << >> THEN Zero(t.elem) ELSE v[1]))
        ELSE parseValueByte(data, d, t, v)

\* Unmarshal(data, &v): [err, v, d] with v the target as the call leaves it.
Unmarshal(data, t, v) ==
    LET result(r) ==
            IF r.err # "" THEN [err |-> r.err, v |-> r.v, d |-> r.d]
            ELSE IF ~r.ok THEN [err |-> "unexpectedE", v |-> r.v, d |-> r.d]
            ELSE [err |-> "", v |-> r.v, d |-> r.d]
    IN  result(parseValue(data, newDecodeState, t, v))

\* ------------------------------------------------------------ the shapes
\* Names used as field names and wire keys.
nA == << 65 >>
nB == << 66 >>
nC == << 67 >>
nb == << 98 >>
nk == << 107 >>
nL == << 76 >>
nN == << 78 >>
nIn == << 73, 110 >>
nfoo == << 102, 111, 111 >>
nbar == << 98, 97, 114 >>

\* struct{ Foo int8 `bencode:"foo"` }
RecFoo == TStruct(<< Field(<< 70, 111, 111 >>, << nfoo >>, TRUE, TInt(8)) >>)

\* struct{ A int8; b int8; C int8 `bencode:"-"` }
RecStrict ==
    TStruct(<< Field(nA, NoTag, TRUE, TInt(8)),
               Field(nb, NoTag, FALSE, TInt(8)),
               Field(nC, << Minus >>, TRUE, TInt(8)) >>)

\* struct{ A int8 `bencode:"k"`; B int8 `bencode:"k"` }
RecDup ==
    TStruct(<< Field(nA, << nk >>, TRUE, TInt(8)),
               Field(nB, << nk >>, TRUE, TInt(8)) >>)

\* struct{ A int8 `bencode:"k"`; b int8 `bencode:"k"` }
RecShadow ==
    TStruct(<< Field(nA, << nk >>, TRUE, TInt(8)),
               Field(nb, << nk >>, FALSE, TInt(8)) >>)

\* struct{ B int8 `bencode:",omitempty"`; A int8; L []int8 `bencode:",omitempty"` }
RecOmit ==
    TStruct(<< Field(nB, << << >>, "omitempty" >>, TRUE, TInt(8)),
               Field(nA, NoTag, TRUE, TInt(8)),
               Field(nL, << << >>, "omitempty" >>, TRUE, TSlice(TInt(8))) >>)

\* struct{ A bool; b bool }
Inner ==
    TStruct(<< Field(nA, NoTag, TRUE, TBool),
               Field(nb, NoTag, FALSE, TBool) >>)

\* struct{ In Inner `bencode:",omitempty"`; N [1]*bool `bencode:",omitempty"` }
RecNested ==
    TStruct(<< Field(nIn, << << >>, "omitempty" >>, TRUE, Inner),
               Field(nN, << << >>, "omitempty" >>, TRUE,
                     TArray(1, TPtr(TBool))) >>)

\* struct{ L []int8; N int8 }
RecSeq ==
    TStruct(<< Field(nL, NoTag, TRUE, TSlice(TInt(8))),
               Field(nN, NoTag, TRUE, TInt(8)) >>)

Shapes ==
    << TBool, TInt(8), TUint(8), TString, TBigInt, TFloat,
       TSlice(TInt(8)), TArray(3, TInt(8)),
       TSlice(TUint(8)), TArray(2, TUint(8)),
       TMap(TInt(8)), TMap(TSlice(TBool)), TPtr(TString),
       RecFoo, RecStrict, RecDup, RecShadow, RecOmit, RecNested, RecSeq >>

\* ------------------------------------------------------------ the inputs
SeqsUpTo(S, n) == UNION {[1..k -> S] : k \in 0..n}

\* Bytes of the strings enumerated: "a" and "e".
StrBytes == {97, B_e}
MapKeySet == {nA, nb}

RECURSIVE Values(_)
RECURSIVE Tuples(_, _)

\* The values of the first k fields of a struct type.
Tuples(t, k) ==
    IF k = 0 THEN {<< >>}
    ELSE {Append(p, x) : p \in Tuples(t, k - 1), x \in Values(t.fields[k].typ)}

\* The values of a type that are enumerated as inputs.
Values(t) ==
    CASE t.kind = "bool" -> BOOLEAN
      [] t.kind \in {"int", "bigint"} -> {-1} \cup 0..MaxInt
      [] t.kind = "uint" -> 0..MaxInt
      [] t.kind = "float" -> {0}
      [] t.kind = "string" -> SeqsUpTo(StrBytes, MaxLen)
      [] t.kind = "slice" ->
            {[nil |-> TRUE, items |-> << >>]}
            \cup {[nil |-> FALSE, items |-> q] :
                     q \in SeqsUpTo(Values(t.elem), MaxLen)}
      [] t.kind = "array" -> [1..t.len -> Values(t.elem)]
      [] t.kind = "map" ->
            {[nil |-> TRUE, m |-> << >>]}
            \cup {[nil |-> FALSE, m |-> f] :
                     f \in UNION {[K -> Values(t.elem)] : K \in SUBSET MapKeySet}}
      [] t.kind = "ptr" -> {<< >>} \cup {<< x >> : x \in Values(t.elem)}
      [] t.kind = "struct" -> Tuples(t, Len(t.fields))

\* A target that holds something before Unmarshal writes to it.
RECURSIVE Filled(_)
Filled(t) ==
    CASE t.kind = "bool" -> TRUE
      [] t.kind \in {"int", "uint", "bigint"} -> 2
      [] t.kind = "float" -> 0
      [] t.kind = "string" -> << 97 >>
      [] t.kind = "slice" -> [nil |-> FALSE, items |-> << Filled(t.elem) >>]
      [] t.kind = "array" -> [k \in 1..t.len |-> Filled(t.elem)]
      [] t.kind = "map" -> [nil |-> FALSE, m |-> (nA :> Filled(t.elem))]
      [] t.kind = "ptr" -> << Filled(t.elem) >>
      [] t.kind = "struct" ->
            [k \in 1..Len(t.fields) |-> Filled(t.fields[k].typ)]

Targets(t) == {Zero(t), Filled(t)}

\* The concatenation of a sequence of byte strings.
RECURSIVE Concat(_)
Concat(ss) == IF ss = << >> THEN << >> ELSE ss[1] \o Concat(Tail(ss))

\* Bencode documents, written from the wire grammar.
IntDoc(payload) == << B_i >> \o payload \o << B_e >>
StrDoc(b) == AppendUint(Len(b)) \o << B_colon >> \o b
ListDoc(elems) == << B_l >> \o Concat(elems) \o << B_e >>
PairDoc(key, val) == StrDoc(key) \o val
DictDoc(pairs) == << B_d >> \o Concat(pairs) \o << B_e >>

\* Integer payloads: the decimal numbers, and payloads that are empty,
\* non-numeric, or too wide for 8 bits.
IntPayloads ==
    {AppendInt(n) : n \in {-1} \cup 0..MaxInt}
    \cup {<< >>, Minus, << 97 >>, AppendInt(200), AppendInt(300)}

IntDocs == {IntDoc(p) : p \in IntPayloads}
StrDocs == {StrDoc(b) : b \in SeqsUpTo(StrBytes, MaxLen + 1)}
Atoms == {IntDoc(AppendInt(1)), IntDoc(AppendInt(0)), StrDoc(<< 97 >>)}
ListDocs == {ListDoc(q) : q \in SeqsUpTo(Atoms, MaxLen)}
DictKeys == {nA, nb, nC, nk}
DictVals == {IntDoc(AppendInt(1)), IntDoc(AppendInt(0))}
Pairs == {PairDoc(k, x) : k \in DictKeys, x \in DictVals}
DictDocs == {DictDoc(q) : q \in SeqsUpTo(Pairs, MaxLen)}

\* Documents with nesting, and documents that are cut short or malformed.
OtherDocs ==
    { DictDoc(<< PairDoc(nfoo, IntDoc(AppendInt(1))),
                 PairDoc(nbar, IntDoc(AppendInt(2))) >>),
      DictDoc(<< PairDoc(nL, ListDoc(<< IntDoc(AppendInt(1)),
                                        IntDoc(AppendInt(2)) >>)),
                 PairDoc(nN, IntDoc(AppendInt(1))) >>),
      DictDoc(<< PairDoc(nA, ListDoc(<< >>)) >>),
      ListDoc(<< ListDoc(<< >>), IntDoc(AppendInt(1)) >>),
      << B_e >>, << >>, << B_l >>, << B_d >>, << B_i, B_0 + 1 >>,
      << B_0 + 2, B_colon, 97 >>, << 120 >>, << B_0 + 1, 97, B_colon >>,
      IntDoc(AppendInt(1)) \o << B_0 + 2, B_e >> }

Docs == IntDocs \cup StrDocs \cup ListDocs \cup DictDocs \cup OtherDocs

\* ------------------------------------------- one Marshal call, step by step
\* Types that refer to themselves do so by name: reflect resolves the name
\* when the encoder asks for Elem().
TNamed(name) == [kind |-> "named", name |-> name]

nV == << 86 >>
nNext == << 78, 101, 120, 116 >>

\* type Node struct{ V int8; Next *Node }
Node ==
    TStruct(<< Field(nV, NoTag, TRUE, TInt(8)),
               Field(nNext, NoTag, TRUE, TPtr(TNamed("Node"))) >>)

\* type NodeOmit struct{ V int8; Next *NodeOmit `bencode:",omitempty"` }
NodeOmit ==
    TStruct(<< Field(nV, NoTag, TRUE, TInt(8)),
               Field(nNext, << << >>, "omitempty" >>, TRUE,
                     TPtr(TNamed("NodeOmit"))) >>)

\* v.Type().Elem() and v.Type() with the name resolved.
Underlying(t) ==
    IF t.kind # "named" THEN t
    ELSE IF t.name = "Node" THEN Node ELSE NodeOmit

\* Whether values of the type can hold values of a named type.
RECURSIVE HasNamed(_)
HasNamed(t) ==
    CASE t.kind = "named" -> TRUE
      [] t.kind \in {"slice", "array", "map", "ptr"} -> HasNamed(t.elem)
      [] t.kind = "struct" ->
            \E k \in 1..Len(t.fields) : HasNamed(t.fields[k].typ)
      [] OTHER -> FALSE

\* The longest chain of nodes given to Marshal, and the deepest the
\* goroutine's stack of reflectValue calls can grow before the runtime ends
\* the process with a stack overflow.
MaxChain == 2
MaxStack == 6

\* The finite, acyclic values of a node type: chains that end in a nil Next.
RECURSIVE Chains(_)
Chains(n) ==
    IF n = 0 THEN {}
    ELSE {<< x, << >> >> : x \in {0, 1}}
         \cup {<< x, << c >> >> : x \in {0, 1}, c \in Chains(n - 1)}

EncShapes ==
    << Node, NodeOmit, TPtr(TNamed("Node")), TPtr(TNamed("NodeOmit")) >>

EncValues(t) ==
    IF t.kind = "ptr" THEN {<< >>} \cup {<< c >> : c \in Chains(MaxChain)}
    ELSE Chains(MaxChain)

VARIABLES
    epc,     \* "idle", "running", "returned", "panic" or "overflow"
    estack,  \* the reflectValue calls in progress, innermost last
    ebuf,    \* e.Buffer: the bytes written so far
    eres     \* what Marshal returned: [err, out]

evars == << epc, estack, ebuf, eres >>

\* A reflectValue call: the value, its type, and how far its encoder is.
Frame(t, v) == [t |-> t, v |-> v, k |-> 0]

EncIdle ==
    /\ epc = "idle"
    /\ estack = << >>
    /\ ebuf = << >>
    /\ eres = Enc("", << >>)

\* --------------------------------------- the encoder cache, concurrently
\* Goroutines that each call typeEncoder(t) once, step by step, and then
\* run the encoder they were given, as reflectValue does.
NProcs == 3
Procs == 1..NProcs

\* The types the callers ask for.
CacheShapes == << TBool, RecFoo >>

VARIABLES
    encoderCache,  \* encoderCache: for each type, the entry stored or NoEntry
    tpc,           \* where each goroutine is in typeEncoder and in its call of fi
    typ,           \* the type t each goroutine asked for
    wg,            \* the counter of each call's sync.WaitGroup
    f,             \* each call's local f: "" while it is unset (nil)
    fi,            \* the encoderFunc typeEncoder returned to each goroutine
    ran,           \* the encoder each goroutine ended up running ("" is nil)
    computed       \* how many times newTypeEncoder ran for each type

cvars == << encoderCache, tpc, typ, wg, f, fi, ran, computed >>

\* An entry of encoderCache: nothing, the indirect func of the call made by
\* goroutine owner, or the encoder itself.
NoEntry == [kind |-> "none", owner |-> 0, f |-> ""]
Indirect(p) == [kind |-> "indirect", owner |-> p, f |-> ""]
Direct(fn) == [kind |-> "direct", owner |-> 0, f |-> fn]

CacheIdle ==
    /\ encoderCache = [k \in 1..Len(CacheShapes) |-> NoEntry]
    /\ tpc = [p \in Procs |-> "idle"]
    /\ typ = [p \in Procs |-> 1]
    /\ wg = [p \in Procs |-> 0]
    /\ f = [p \in Procs |-> ""]
    /\ fi = [p \in Procs |-> NoEntry]
    /\ ran = [p \in Procs |-> ""]
    /\ computed = [k \in 1..Len(CacheShapes) |-> 0]

\* ------------------------------------------------------------- the calls
VARIABLES
    pc,      \* "idle", "marshalled", "unmarshalled" or "roundtrip"
    shape,   \* the type of the value given to Marshal, or of the target
    src,     \* the value given to Marshal
    iter,    \* the order in which this call's maps are iterated
    mres,    \* Marshal's result: [err, out]
    data,    \* the bytes given to Unmarshal
    target,  \* the target before Unmarshal
    ures     \* Unmarshal's result: [err, v, d]

hvars == << pc, shape, src, iter, mres, data, target, ures >>

vars == << hvars, cvars, evars >>

None == [kind |-> "none"]

Idle ==
    /\ pc = "idle"
    /\ shape = None
    /\ src = << >>
    /\ iter = "asc"
    /\ mres = Enc("", << >>)
    /\ data = << >>
    /\ target = << >>
    /\ ures = [err |-> "", v |-> << >>, d |-> newDecodeState]

Init == Idle /\ CacheIdle /\ EncIdle

\* b, err := Marshal(v)
CallMarshal ==
    /\ pc = "idle"
    /\ \E k \in 1..Len(Shapes) : \E v \in Values(Shapes[k]) :
       \E o \in {"asc", "desc"} :
          /\ shape' = Shapes[k]
          /\ src' = v
          /\ iter' = o
          /\ mres' = Marshal(Shapes[k], v, o)
    /\ pc' = "marshalled"
    /\ UNCHANGED << data, target, ures >>
    /\ UNCHANGED << cvars, evars >>

\* err := Unmarshal(data, &v)
CallUnmarshal ==
    /\ pc = "idle"
    /\ \E k \in 1..Len(Shapes) : \E doc \in Docs : \E v \in Targets(Shapes[k]) :
          /\ shape' = Shapes[k]
          /\ data' = doc
          /\ target' = v
          /\ ures' = Unmarshal(doc, Shapes[k], v)
    /\ pc' = "unmarshalled"
    /\ UNCHANGED << src, iter, mres >>
    /\ UNCHANGED << cvars, evars >>

\* err := Unmarshal(b, &v2) with b the bytes Marshal returned and v2 new.
CallUnmarshalMarshalled ==
    /\ pc = "marshalled"
    /\ mres.err = ""
    /\ data' = mres.out
    /\ target' = Zero(shape)
    /\ ures' = Unmarshal(mres.out, shape, Zero(shape))
    /\ pc' = "roundtrip"
    /\ UNCHANGED << shape, src, iter, mres >>
    /\ UNCHANGED << cvars, evars >>

\* The caller drops the results.
Return ==
    /\ pc # "idle"
    /\ pc' = "idle"
    /\ shape' = None
    /\ src' = << >>
    /\ iter' = "asc"
    /\ mres' = Enc("", << >>)
    /\ data' = << >>
    /\ target' = << >>
    /\ ures' = [err |-> "", v |-> << >>, d |-> newDecodeState]
    /\ UNCHANGED << cvars, evars >>

Next == CallMarshal \/ CallUnmarshal \/ CallUnmarshalMarshalled \/ Return

Spec == Init /\ [][Next]_vars

\* ------------------------------------------------- the wire, read back
\* The bencode grammar, used to state what a document holds.
FirstAt(w, p, b) == CHOOSE j \in p..Len(w) : w[j] = b /\ \A i \in p..(j - 1) : w[i] # b

\* The index of the last byte of the byte string that starts at w[p].
WireStrEnd(w, p) ==
    FirstAt(w, p, B_colon) + DigitsValue(SubSeq(w, p, FirstAt(w, p, B_colon) - 1))

\* The index of the last byte of the value that starts at w[p], and of the
\* "e" that closes the list or dict whose items start at w[p].
RECURSIVE WireEnd(_, _)
RECURSIVE WireItemsEnd(_, _)
WireEnd(w, p) ==
    CASE w[p] = B_i -> FirstAt(w, p, B_e)
      [] w[p] \in {B_l, B_d} -> WireItemsEnd(w, p + 1)
      [] OTHER -> WireStrEnd(w, p)

WireItemsEnd(w, p) ==
    IF w[p] = B_e THEN p ELSE WireItemsEnd(w, WireEnd(w, p) + 1)

\* The keys of the dict whose pairs start at w[p], in the order written.
RECURSIVE WireKeys(_, _)
WireKeys(w, p) ==
    IF w[p] = B_e THEN << >>
    ELSE << SubSeq(w, FirstAt(w, p, B_colon) + 1, WireStrEnd(w, p)) >>
         \o WireKeys(w, WireEnd(w, WireStrEnd(w, p) + 1) + 1)

TopKeys(w) == WireKeys(w, 2)

StrictlyAscending(ks) == \A k \in 1..(Len(ks) - 1) : StrLess(ks[k], ks[k + 1])

Range(q) == {q[k] : k \in DOMAIN q}

\* ------------------------------------------------------ the record shapes
\* A field's wire key, and whether the field takes part in the codec at all.
WireKey(sf) == IF sf.tag[1] = << >> THEN sf.name ELSE sf.tag[1]
Ignored(sf) == sf.anonymous \/ sf.tag[1] = Minus

\* The field a wire key stands for when several declare it: the last one.
Declares(t, key) ==
    {k \in 1..Len(t.fields) : ~Ignored(t.fields[k]) /\ WireKey(t.fields[k]) = key}
LastDeclared(t, key) ==
    CHOOSE k \in Declares(t, key) : \A j \in Declares(t, key) : j <= k
FirstDeclared(t, key) ==
    CHOOSE k \in Declares(t, key) : \A j \in Declares(t, key) : k <= j

\* A key a record target takes: it stands for a field, and an exported one.
Usable(t, key) ==
    Declares(t, key) # {} /\ t.fields[LastDeclared(t, key)].exported

AllFieldsInt8(t) ==
    t.kind = "struct" /\ \A k \in 1..Len(t.fields) : t.fields[k].typ = TInt(8)

\* Dictionaries of integers: a sequence of <<key, n>> and its document.
IntPairSeqs == SeqsUpTo(DictKeys \X {0, 1}, MaxLen)
IntDictDoc(q) ==
    DictDoc([k \in 1..Len(q) |-> PairDoc(q[k][1], IntDoc(AppendInt(q[k][2])))])

ExampleDoc ==
    DictDoc(<< PairDoc(nfoo, IntDoc(AppendInt(1))),
               PairDoc(nbar, IntDoc(AppendInt(2))) >>)

IntDictDocOf == [q \in IntPairSeqs |-> IntDictDoc(q)]

\* The record v after the pairs of q are written in order, each to the field
\* its key stands for.
RECURSIVE Written(_, _, _)
Written(t, v, q) ==
    IF q = << >> THEN v
    ELSE Written(t, [v EXCEPT ![LastDeclared(t, q[1][1])] = q[1][2]], Tail(q))

RECURSIVE WrittenFirst(_, _, _)
WrittenFirst(t, v, q) ==
    IF q = << >> THEN v
    ELSE WrittenFirst(t, [v EXCEPT ![FirstDeclared(t, q[1][1])] = q[1][2]],
                      Tail(q))

HasUnusable(t, q) == \E k \in 1..Len(q) : ~Usable(t, q[k][1])
FirstUnusable(t, q) ==
    CHOOSE k \in 1..Len(q) :
        ~Usable(t, q[k][1]) /\ \A j \in 1..(k - 1) : Usable(t, q[j][1])
HasShared(t, q) == \E k \in 1..Len(q) : Cardinality(Declares(t, q[k][1])) >= 2

\* ------------------------------------------------------------------ claims

\* C3: Unmarshal of a dictionary into a record target returns an error when
\* it reads a key that stands for no field, for an unexported field or for a
\* field ignored with "-"; the pairs before that key are already written
\* (no rollback), as in "d3:fooi1e3:bari2ee" into a record with only foo.
C3_StrictKeys ==
    (pc = "unmarshalled" /\ shape.kind = "struct") =>
        /\ \A q \in IntPairSeqs :
              (data = IntDictDocOf[q] /\ HasUnusable(shape, q)) =>
                  /\ ures.err # ""
                  /\ AllFieldsInt8(shape) =>
                        /\ ures.err = "unknownKey"
                        /\ ures.v = Written(shape, target,
                               SubSeq(q, 1, FirstUnusable(shape, q) - 1))
        /\ (shape = RecFoo /\ data = ExampleDoc) =>
              /\ ures.err = "unknownKey"
              /\ ures.v = << 1 >>

C3_Witness ==
    /\ pc = "unmarshalled"
    /\ shape = RecFoo
    /\ data = ExampleDoc
    /\ target = Zero(RecFoo)
    /\ ures.err = "unknownKey"
    /\ ures.v = << 1 >>

\* C10 as claimed: when two fields of a record declare the same wire key,
\* decoding a dictionary with that key writes the field declared first and
\* leaves the later one unchanged.
C10_FirstDeclaredWins ==
    (pc = "unmarshalled" /\ AllFieldsInt8(shape)) =>
        \A q \in IntPairSeqs :
            ( /\ data = IntDictDocOf[q]
              /\ HasShared(shape, q)
              /\ \A k \in 1..Len(q) :
                    /\ Declares(shape, q[k][1]) # {}
                    /\ shape.fields[FirstDeclared(shape, q[k][1])].exported ) =>
                /\ ures.err = ""
                /\ ures.v = WrittenFirst(shape, target, q)

\* C10 as amended: when two fields of a record declare the same wire key,
\* the lookup returns the field declared last, so decoding a dictionary with
\* that key writes the last-declared field and leaves the earlier one
\* unchanged; when the last-declared field is unexported the key is rejected
\* and neither field is written.
C10_LastDeclaredWins ==
    (pc = "unmarshalled" /\ AllFieldsInt8(shape)) =>
        \A q \in IntPairSeqs :
            (data = IntDictDocOf[q] /\ HasShared(shape, q)) =>
                IF HasUnusable(shape, q)
                THEN /\ ures.err = "unknownKey"
                     /\ ures.v = Written(shape, target,
                            SubSeq(q, 1, FirstUnusable(shape, q) - 1))
                ELSE /\ ures.err = ""
                     /\ ures.v = Written(shape, target, q)

C10_Witness ==
    /\ pc = "unmarshalled"
    /\ shape = RecDup
    /\ data = IntDictDoc(<< << nk, 1 >> >>)
    /\ target = Filled(RecDup)
    /\ ures.err = ""
    /\ ures.v = << 2, 1 >>

\* --------------------------------------------- what the claims speak of
\* The shapes the codec supports: every kind but float.
RECURSIVE IsSupported(_)
IsSupported(t) ==
    CASE t.kind = "float" -> FALSE
      [] t.kind \in {"slice", "array", "map", "ptr"} -> IsSupported(t.elem)
      [] t.kind = "struct" ->
            \A k \in 1..Len(t.fields) : IsSupported(t.fields[k].typ)
      [] OTHER -> TRUE

\* Semantic equality of two values of a type: an absent sequence or mapping
\* equals an empty one, an absent indirection equals one to the zero value,
\* and a record is compared on the fields that are encoded.
RECURSIVE SemEq(_, _, _)
SemEq(t, a, b) ==
    CASE t.kind = "slice" ->
            /\ Len(a.items) = Len(b.items)
            /\ \A k \in 1..Len(a.items) : SemEq(t.elem, a.items[k], b.items[k])
      [] t.kind = "array" -> \A k \in 1..t.len : SemEq(t.elem, a[k], b[k])
      [] t.kind = "map" ->
            /\ DOMAIN a.m = DOMAIN b.m
            /\ \A k \in DOMAIN a.m : SemEq(t.elem, a.m[k], b.m[k])
      [] t.kind = "ptr" ->
            SemEq(t.elem, IF a = << >> THEN Zero(t.elem) ELSE a[1],
                  IF b = << >> THEN Zero(t.elem) ELSE b[1])
      [] t.kind = "struct" ->
            \A k \in 1..Len(t.fields) :
                (t.fields[k].exported /\ ~Ignored(t.fields[k])) =>
                    SemEq(t.fields[k].typ, a[k], b[k])
      [] OTHER -> a = b

\* Emptiness as the omission rule defines it.
RECURSIVE IsEmpty(_, _)
IsEmpty(t, v) ==
    CASE t.kind \in {"slice", "map"} -> v.nil
      [] t.kind = "ptr" -> v = << >>
      [] t.kind = "array" -> \A k \in 1..t.len : IsEmpty(t.elem, v[k])
      [] t.kind = "struct" ->
            \A k \in 1..Len(t.fields) :
                t.fields[k].exported => IsEmpty(t.fields[k].typ, v[k])
      [] OTHER -> v = Zero(t)

Reverse(q) == [k \in 1..Len(q) |-> q[Len(q) + 1 - k]]

\* Lists of integers: a sequence of integers and its document.
IntSeqs == SeqsUpTo({0, 1}, MaxLen)
IntListDoc(q) == ListDoc([k \in 1..Len(q) |-> IntDoc(AppendInt(q[k]))])
IntListDocOf == [q \in IntSeqs |-> IntListDoc(q)]

SeqDoc ==
    DictDoc(<< PairDoc(nL, ListDoc(<< IntDoc(AppendInt(1)),
                                      IntDoc(AppendInt(2)) >>)),
               PairDoc(nN, IntDoc(AppendInt(1))) >>)

IsScalar(t) == t.kind \in {"bool", "int", "uint", "bigint"}

\* C1: for every value v of a supported shape Marshal(v) succeeds, and
\* Unmarshal of its bytes into a new v2 succeeds with v2 semantically equal
\* to v.
C1_RoundTrip ==
    /\ (pc \in {"marshalled", "roundtrip"} /\ IsSupported(shape)) =>
          mres.err = ""
    /\ (pc = "roundtrip" /\ IsSupported(shape)) =>
          /\ ures.err = ""
          /\ SemEq(shape, ures.v, src)

\* C2: the dictionary Marshal emits for a mapping or a record lists its keys
\* in strictly ascending byte order, and the bytes do not depend on the map
\* iteration order or on the order in which the fields are declared.
C2_Canonical ==
    (pc = "marshalled" /\ mres.err = "" /\ shape.kind \in {"map", "struct"}) =>
        /\ StrictlyAscending(TopKeys(mres.out))
        /\ \A o \in {"asc", "desc"} : Marshal(shape, src, o) = mres
        /\ shape.kind = "struct" =>
              Marshal(TStruct(Reverse(shape.fields)), Reverse(src), iter) = mres

\* C4: Marshal of a record returns normally, and a field is absent from the
\* output exactly when it is tagged omitempty and its value is empty.
C4_Omission ==
    (pc = "marshalled" /\ shape.kind = "struct" /\ IsSupported(shape)) =>
        /\ mres.err = ""
        /\ \A k \in 1..Len(shape.fields) :
              (shape.fields[k].exported /\ ~Ignored(shape.fields[k])) =>
                  ( WireKey(shape.fields[k]) \in Range(TopKeys(mres.out))
                    <=> ~( /\ OmitEmpty(shape.fields[k].tag)
                           /\ IsEmpty(shape.fields[k].typ, src[k]) ) )

\* C5: decoding a list of n values into a slice leaves exactly those n
\* elements, in order, with the cursor right after the list's closing "e",
\* so that an enclosing dict goes on with the next pair.
C5_ListIntoSlice ==
    /\ (pc = "unmarshalled" /\ shape = TSlice(TInt(8))) =>
          \A q \in IntSeqs :
              data = IntListDocOf[q] =>
                  /\ ures.err = ""
                  /\ ures.v.items = q
                  /\ ures.d.Offset = Len(data)
    /\ (pc = "unmarshalled" /\ shape = RecSeq /\ data = SeqDoc) =>
          /\ ures.err = ""
          /\ ures.v = << [nil |-> FALSE, items |-> << 1, 2 >>], 1 >>

\* C6: decoding a list of n values into an array of capacity k fills slots
\* 0..min(n,k)-1 in order; when n < k the call succeeds, the other slots are
\* zero, and the cursor stops at the list's closing "e".
C6_ListIntoArray ==
    (pc = "unmarshalled" /\ shape = TArray(3, TInt(8))) =>
        \A q \in IntSeqs :
            data = IntListDocOf[q] =>
                /\ \A k \in 1..Min(Len(q), 3) : ures.v[k] = q[k]
                /\ Len(q) < 3 =>
                      /\ ures.err = ""
                      /\ \A k \in (Len(q) + 1)..3 : ures.v[k] = 0
                      /\ ures.d.Offset = Len(data)

\* C7: decoding "i<decimal>e" into a big.Int succeeds with that value and
\* consumes exactly that integer; an empty or non-numeric payload fails.
C7_BigInt ==
    (pc = "unmarshalled" /\ shape = TBigInt) =>
        /\ \A n \in Values(TBigInt) :
              data = IntDoc(AppendInt(n)) =>
                  /\ ures.err = ""
                  /\ ures.v = n
                  /\ ures.d.Offset = Len(data)
        /\ data \in {IntDoc(<< >>), IntDoc(<< 97 >>), IntDoc(Minus)} =>
              ures.err # ""

\* C8: decoding a byte string of n bytes into a byte array of capacity k
\* fails when n differs from k and yields the bytes when n = k.
C8_ByteArray ==
    (pc = "unmarshalled" /\ shape = TArray(2, TUint(8))) =>
        \A b \in SeqsUpTo(StrBytes, MaxLen + 1) :
            data = StrDoc(b) =>
                IF Len(b) = 2 THEN ures.err = "" /\ ures.v = b
                ELSE ures.err # ""

\* C9: Unmarshal returns an error whenever the value read has a kind the
\* target cannot take: a list into a scalar, text, mapping or record; a dict
\* into a scalar or text; an integer into text; a byte string into an
\* integer.
C9_KindMismatch ==
    pc = "unmarshalled" =>
        /\ ( /\ data \in ListDocs
             /\ IsScalar(shape) \/ shape.kind \in {"string", "map", "struct"} )
              => ures.err # ""
        /\ (data \in DictDocs /\ (IsScalar(shape) \/ shape.kind = "string"))
              => ures.err # ""
        /\ (data \in IntDocs /\ shape.kind = "string") => ures.err # ""
        /\ (data \in StrDocs /\ shape.kind \in {"int", "uint"})
              => ures.err # ""


\* ------------------------------------- the steps of the concurrent callers
InitCache == Idle /\ CacheIdle /\ EncIdle

\* A goroutine calls typeEncoder(t).
TypeEncoderCall(p) ==
    /\ tpc[p] = "idle"
    /\ \E k \in 1..Len(CacheShapes) : typ' = [typ EXCEPT ![p] = k]
    /\ tpc' = [tpc EXCEPT ![p] = "Load"]
    /\ UNCHANGED << encoderCache, wg, f, fi, ran, computed >>
    /\ UNCHANGED << hvars, evars >>

\* if fi, ok := encoderCache.Load(t); ok { return fi.(encoderFunc) }
CacheLoad(p) ==
    /\ tpc[p] = "Load"
    /\ IF encoderCache[typ[p]] # NoEntry
       THEN /\ fi' = [fi EXCEPT ![p] = encoderCache[typ[p]]]
            /\ tpc' = [tpc EXCEPT ![p] = "returned"]
       ELSE /\ tpc' = [tpc EXCEPT ![p] = "Add"]
            /\ UNCHANGED fi
    /\ UNCHANGED << encoderCache, typ, wg, f, ran, computed >>
    /\ UNCHANGED << hvars, evars >>

\* var (wg sync.WaitGroup; f encoderFunc); wg.Add(1)
WgAdd(p) ==
    /\ tpc[p] = "Add"
    /\ wg' = [wg EXCEPT ![p] = wg[p] + 1]
    /\ tpc' = [tpc EXCEPT ![p] = "LoadOrStore"]
    /\ UNCHANGED << encoderCache, typ, f, fi, ran, computed >>
    /\ UNCHANGED << hvars, evars >>

\* LoadOrStore taken for Store: the indirect func replaces what is there.
CacheLoadOrStore_Overwrite(p) ==
    /\ tpc[p] = "LoadOrStore"
    /\ encoderCache' = [encoderCache EXCEPT ![typ[p]] = Indirect(p)]
    /\ tpc' = [tpc EXCEPT ![p] = "Compute"]
    /\ UNCHANGED << typ, wg, f, fi, ran, computed >>
    /\ UNCHANGED << hvars, evars >>

\* fi, loaded := encoderCache.LoadOrStore(t, <the indirect func>)
\* if loaded { return fi.(encoderFunc) }
CacheLoadOrStore(p) ==
    /\ tpc[p] = "LoadOrStore"
    /\ IF encoderCache[typ[p]] # NoEntry
       THEN /\ fi' = [fi EXCEPT ![p] = encoderCache[typ[p]]]
            /\ tpc' = [tpc EXCEPT ![p] = "returned"]
            /\ UNCHANGED encoderCache
       ELSE /\ encoderCache' = [encoderCache EXCEPT ![typ[p]] = Indirect(p)]
            /\ tpc' = [tpc EXCEPT ![p] = "Compute"]
            /\ UNCHANGED fi
    /\ UNCHANGED << typ, wg, f, ran, computed >>
    /\ UNCHANGED << hvars, evars >>

\* f = newTypeEncoder(t)
ComputeEncoder(p) ==
    /\ tpc[p] = "Compute"
    /\ f' = [f EXCEPT ![p] = newTypeEncoder(CacheShapes[typ[p]])]
    /\ computed' = [computed EXCEPT ![typ[p]] = computed[typ[p]] + 1]
    /\ tpc' = [tpc EXCEPT ![p] = "Done"]
    /\ UNCHANGED << encoderCache, typ, wg, fi, ran >>
    /\ UNCHANGED << hvars, evars >>

\* wg.Done()
WgDone(p) ==
    /\ tpc[p] = "Done"
    /\ wg' = [wg EXCEPT ![p] = wg[p] - 1]
    /\ tpc' = [tpc EXCEPT ![p] = "Store"]
    /\ UNCHANGED << encoderCache, typ, f, fi, ran, computed >>
    /\ UNCHANGED << hvars, evars >>

\* encoderCache.Store(t, f); return f
CacheStore(p) ==
    /\ tpc[p] = "Store"
    /\ encoderCache' = [encoderCache EXCEPT ![typ[p]] = Direct(f[p])]
    /\ fi' = [fi EXCEPT ![p] = Direct(f[p])]
    /\ tpc' = [tpc EXCEPT ![p] = "returned"]
    /\ UNCHANGED << typ, wg, f, ran, computed >>
    /\ UNCHANGED << hvars, evars >>

\* The caller runs what it was given, typeEncoder(v.Type())(e, v), and that
\* is the encoder itself.
RunEncoder(p) ==
    /\ tpc[p] = "returned"
    /\ fi[p].kind = "direct"
    /\ ran' = [ran EXCEPT ![p] = fi[p].f]
    /\ tpc' = [tpc EXCEPT ![p] = "finished"]
    /\ UNCHANGED << encoderCache, typ, wg, f, fi, computed >>
    /\ UNCHANGED << hvars, evars >>

\* The caller runs the indirect func: wg.Wait() returns once the counter of
\* the call that stored it is zero.
WgWait(p) ==
    /\ tpc[p] = "returned"
    /\ fi[p].kind = "indirect"
    /\ wg[fi[p].owner] = 0
    /\ tpc' = [tpc EXCEPT ![p] = "CallF"]
    /\ UNCHANGED << encoderCache, typ, wg, f, fi, ran, computed >>
    /\ UNCHANGED << hvars, evars >>

\* return f(e, v), with f the variable of the call that stored the func.
CallF(p) ==
    /\ tpc[p] = "CallF"
    /\ ran' = [ran EXCEPT ![p] = f[fi[p].owner]]
    /\ tpc' = [tpc EXCEPT ![p] = "finished"]
    /\ UNCHANGED << encoderCache, typ, wg, f, fi, computed >>
    /\ UNCHANGED << hvars, evars >>

\* What a goroutine does once it has called typeEncoder.
Proceed(p) ==
    \/ CacheLoad(p) \/ WgAdd(p) \/ CacheLoadOrStore(p) \/ ComputeEncoder(p)
    \/ WgDone(p) \/ CacheStore(p) \/ RunEncoder(p) \/ WgWait(p) \/ CallF(p)

NextCache ==
    \/ \E p \in Procs : TypeEncoderCall(p)
    \/ \E p \in Procs : CacheLoad(p)
    \/ \E p \in Procs : WgAdd(p)
    \/ \E p \in Procs : CacheLoadOrStore(p)
    \/ \E p \in Procs : ComputeEncoder(p)
    \/ \E p \in Procs : WgDone(p)
    \/ \E p \in Procs : CacheStore(p)
    \/ \E p \in Procs : RunEncoder(p)
    \/ \E p \in Procs : WgWait(p)
    \/ \E p \in Procs : CallF(p)

\* The Go scheduler runs every goroutine that can run.
SpecCache ==
    InitCache /\ [][NextCache]_vars /\ \A p \in Procs : WF_vars(Proceed(p))

\* C11: for any interleaving of typeEncoder calls for the same type,
\* newTypeEncoder runs at most once; a caller given the indirect func gets
\* past wg.Wait only when the encoder has been computed, and every caller
\* runs the computed encoder, never an unset one; once the encoder is stored
\* the entry is never an indirect func again; and every caller eventually
\* returns.
C11_StrategyCache ==
    /\ [](\A k \in 1..Len(CacheShapes) : computed[k] <= 1)
    /\ [](\A p \in Procs :
            /\ tpc[p] = "CallF" => f[fi[p].owner] # ""
            /\ tpc[p] = "finished" => ran[p] = newTypeEncoder(CacheShapes[typ[p]]))
    /\ [][\A k \in 1..Len(CacheShapes) :
            encoderCache[k].kind = "direct" => encoderCache'[k] = encoderCache[k]]_vars
    /\ \A p \in Procs : (tpc[p] # "idle") ~> (tpc[p] = "finished")

\* Three callers of one type are done: one computed the encoder, one was
\* given the indirect func and waited, one found the encoder in the cache.
C11_Witness ==
    /\ \A p \in Procs : tpc[p] = "finished" /\ typ[p] = 2
    /\ \A p \in Procs : ran[p] = "newStructEncoder"
    /\ computed[2] = 1
    /\ encoderCache[2] = Direct("newStructEncoder")
    /\ \E p \in Procs : fi[p].kind = "indirect"
    /\ \E p, q \in Procs : p # q /\ fi[p].kind = "direct" /\ fi[q].kind = "direct"


\* -------------------------------------------- the steps of one Marshal call
InitEncode == Idle /\ CacheIdle /\ EncIdle

Top == estack[Len(estack)]
Pop == SubSeq(estack, 1, Len(estack) - 1)

\* The stack once the innermost call has moved on to k.
Advance(k) == [estack EXCEPT ![Len(estack)].k = k]

\* b, err := Marshal(v): marshal calls e.reflectValue(reflect.ValueOf(v)).
MarshalCall ==
    /\ epc = "idle"
    /\ \E s \in 1..Len(EncShapes) : \E v \in EncValues(EncShapes[s]) :
          estack' = << Frame(EncShapes[s], v) >>
    /\ epc' = "running"
    /\ UNCHANGED << ebuf, eres >>
    /\ UNCHANGED << hvars, cvars >>

\* reflectValue of a value that holds no node: its encoder runs to the end.
ReflectValueClosed ==
    /\ epc = "running"
    /\ estack # << >>
    /\ ~HasNamed(Top.t)
    /\ LET r == reflectValue(Top.t, Top.v, "asc")
       IN  IF r.err # ""
           THEN /\ epc' = "returned"
                /\ eres' = Enc(r.err, << >>)
                /\ estack' = << >>
                /\ UNCHANGED ebuf
           ELSE /\ ebuf' = ebuf \o r.out
                /\ estack' = Pop
                /\ UNCHANGED << epc, eres >>
    /\ UNCHANGED << hvars, cvars >>

\* newStructEncoder: e.WriteString("d").
StructEncoderOpen ==
    /\ epc = "running"
    /\ estack # << >>
    /\ Top.t.kind = "struct" /\ HasNamed(Top.t) /\ Top.k = 0
    /\ ebuf' = Append(ebuf, B_d)
    /\ estack' = Advance(1)
    /\ UNCHANGED << epc, eres >>
    /\ UNCHANGED << hvars, cvars >>

\* newStructEncoder: one turn of the loop over cachedTypeFields.  The field
\* is skipped, or its key is written and e.reflectValue(fieldValue) is
\* called, which needs one more frame of stack.
StructEncoderField ==
    /\ epc = "running"
    /\ estack # << >>
    /\ Top.t.kind = "struct" /\ HasNamed(Top.t)
    /\ Top.k \in 1..Len(cachedTypeFields(Top.t))
    /\ LET ef == cachedTypeFields(Top.t)[Top.k]
           ft == Top.t.fields[ef.i].typ
           empty == IF ef.omitEmpty THEN isEmptyValue(ft, Top.v[ef.i], FALSE)
                    ELSE "false"
       IN  IF empty = "panic"
           THEN /\ epc' = "panic"
                /\ UNCHANGED << estack, ebuf >>
           ELSE IF empty = "true"
           THEN /\ estack' = Advance(Top.k + 1)
                /\ UNCHANGED << epc, ebuf >>
           ELSE /\ ebuf' = ebuf \o AppendInt(Len(ef.tag)) \o << B_colon >>
                                \o ef.tag
                /\ IF Len(estack) >= MaxStack
                   THEN /\ epc' = "overflow"
                        /\ UNCHANGED estack
                   ELSE /\ estack' = Append(Advance(Top.k + 1),
                                            Frame(ft, Top.v[ef.i]))
                        /\ UNCHANGED epc
    /\ UNCHANGED eres
    /\ UNCHANGED << hvars, cvars >>

\* newStructEncoder: e.WriteString("e"); return nil.
StructEncoderClose ==
    /\ epc = "running"
    /\ estack # << >>
    /\ Top.t.kind = "struct" /\ HasNamed(Top.t)
    /\ Top.k > Len(cachedTypeFields(Top.t))
    /\ ebuf' = Append(ebuf, B_e)
    /\ estack' = Pop
    /\ UNCHANGED << epc, eres >>
    /\ UNCHANGED << hvars, cvars >>

\* newPtrEncoder: v = reflect.Zero(v.Type().Elem()) when v.IsNil(), else
\* v = v.Elem(); then e.reflectValue(v), which needs one more frame.
PtrEncoderCall ==
    /\ epc = "running"
    /\ estack # << >>
    /\ Top.t.kind = "ptr" /\ HasNamed(Top.t) /\ Top.k = 0
    /\ IF Len(estack) >= MaxStack
       THEN /\ epc' = "overflow"
            /\ UNCHANGED estack
       ELSE /\ estack' =
                  Append(Advance(1),
                         Frame(Underlying(Top.t.elem),
                               IF Top.v = << >>
                               THEN Zero(Underlying(Top.t.elem))
                               ELSE Top.v[1]))
            /\ UNCHANGED epc
    /\ UNCHANGED << ebuf, eres >>
    /\ UNCHANGED << hvars, cvars >>

\* newPtrEncoder: return what e.reflectValue(v) returned.
PtrEncoderReturn ==
    /\ epc = "running"
    /\ estack # << >>
    /\ Top.t.kind = "ptr" /\ HasNamed(Top.t) /\ Top.k = 1
    /\ estack' = Pop
    /\ UNCHANGED << epc, ebuf, eres >>
    /\ UNCHANGED << hvars, cvars >>

\* Marshal: buf := append([]byte(nil), e.Bytes()...); return buf, nil.
MarshalReturn ==
    /\ epc = "running"
    /\ estack = << >>
    /\ epc' = "returned"
    /\ eres' = Enc("", ebuf)
    /\ UNCHANGED << estack, ebuf >>
    /\ UNCHANGED << hvars, cvars >>

EncodeStep ==
    \/ ReflectValueClosed \/ StructEncoderOpen \/ StructEncoderField
    \/ StructEncoderClose \/ PtrEncoderCall \/ PtrEncoderReturn
    \/ MarshalReturn

NextEncode ==
    \/ MarshalCall
    \/ ReflectValueClosed
    \/ StructEncoderOpen
    \/ StructEncoderField
    \/ StructEncoderClose
    \/ PtrEncoderCall
    \/ PtrEncoderReturn
    \/ MarshalReturn

\* A call that can take a step takes it.
SpecEncode == InitEncode /\ [][NextEncode]_vars /\ WF_vars(EncodeStep)

\* C12: Marshal of a finite, acyclic value terminates with bytes or an
\* error, also when the value's type refers to itself through a pointer and
\* that pointer is nil: the goroutine's stack does not overflow, and the
\* call returns.
C12_EncodeTerminates ==
    /\ [](epc # "overflow")
    /\ (epc = "running") ~> (epc = "returned")

=============================================================================
